---- MODULE Spec2Model ----
(***************************************************************************)
(* The conversational agent of agent.py, the tools of tools.py and the     *)
(* Streamlit prompt handler of app.py, as a state machine.                 *)
(*                                                                         *)
(* A text is a sequence of strings.  Text that the code inspects (user     *)
(* messages, model output, mapping keys) is written one character per      *)
(* element; a literal the code only passes along (a fixed reply, the       *)
(* system prompt) is one element holding the whole literal.                *)
(***************************************************************************)
EXTENDS Integers, Sequences, FiniteSets, TLC

\* ------------------------------------------------------------------ text

UpperAlpha == <<"A","B","C","D","E","F","G","H","I","J","K","L","M",
                "N","O","P","Q","R","S","T","U","V","W","X","Y","Z">>
LowerAlpha == <<"a","b","c","d","e","f","g","h","i","j","k","l","m",
                "n","o","p","q","r","s","t","u","v","w","x","y","z">>

\* str.lower() on one character.
LowerChar(c) ==
    IF \E i \in 1..Len(UpperAlpha) : UpperAlpha[i] = c
    THEN LowerAlpha[CHOOSE i \in 1..Len(UpperAlpha) : UpperAlpha[i] = c]
    ELSE c

\* str.lower()
Lower(t) == [i \in 1..Len(t) |-> LowerChar(t[i])]

\* The characters str.strip() removes and json skips between tokens.
Whitespace == {" ", "\n", "\t", "\r"}

RECURSIVE LStrip(_)
LStrip(t) ==
    IF t # <<>> /\ Head(t) \in Whitespace THEN LStrip(Tail(t)) ELSE t

RECURSIVE RStrip(_)
RStrip(t) ==
    IF t # <<>> /\ t[Len(t)] \in Whitespace
    THEN RStrip(SubSeq(t, 1, Len(t) - 1))
    ELSE t

\* str.strip()
Strip(t) == RStrip(LStrip(t))

\* Python's `k in t` on strings: k occurs in t as a contiguous run.
Contains(t, k) ==
    \E i \in 0..(Len(t) - Len(k)) : SubSeq(t, i + 1, i + Len(k)) = k

\* any(k in t for k in keys)
AnyIn(keys, t) == \E k \in keys : Contains(t, k)

\* sep.join(parts) for a sequence of texts.
RECURSIVE Join(_, _)
Join(sep, parts) ==
    IF parts = <<>> THEN <<>>
    ELSE IF Len(parts) = 1 THEN parts[1]
    ELSE parts[1] \o sep \o Join(sep, Tail(parts))

\* ------------------------------------------------------------ json.loads
\* A decoded value is a record [type, s, items, m]: type is one of "str",
\* "num", "bool", "null", "list", "dict"; s holds the characters of a string,
\* number or literal, items the elements of a list, m the mapping of a dict
\* (a function from key texts to values).  None is JNull.

JNull == [type |-> "null", s |-> <<>>, items |-> <<>>, m |-> <<>>]
JStr(t) == [type |-> "str", s |-> t, items |-> <<>>, m |-> <<>>]
JNum(t) == [type |-> "num", s |-> t, items |-> <<>>, m |-> <<>>]
JBool(t) == [type |-> "bool", s |-> t, items |-> <<>>, m |-> <<>>]
JList(xs) == [type |-> "list", s |-> <<>>, items |-> xs, m |-> <<>>]
JDict(f) == [type |-> "dict", s |-> <<>>, items |-> <<>>, m |-> f]

\* A mapping with no keys.
EmptyMap == [k \in {} |-> JNull]

\* dict[key] = value (a later duplicate key replaces the earlier one).
MapPut(f, key, value) ==
    [k \in (DOMAIN f) \cup {key} |-> IF k = key THEN value ELSE f[k]]

\* {**b, **a}: a's value where both have the key (the merge the other way).
MapMergeKeepFirst(a, b) ==
    [k \in (DOMAIN a) \cup (DOMAIN b) |-> IF k \in DOMAIN a THEN a[k] ELSE b[k]]

\* {**a, **b}: the keys of both, b's value where both have the key.
MapMerge(a, b) ==
    [k \in (DOMAIN a) \cup (DOMAIN b) |-> IF k \in DOMAIN b THEN b[k] ELSE a[k]]

Digits == {"0","1","2","3","4","5","6","7","8","9"}

\* The parse result: ok, the value, and the index after it.
PFail == [ok |-> FALSE, val |-> JNull, next |-> 0]
POk(v, n) == [ok |-> TRUE, val |-> v, next |-> n]

\* The first index >= i of t that holds no whitespace (Len(t)+1 at the end).
RECURSIVE SkipWs(_, _)
SkipWs(t, i) ==
    IF i <= Len(t) /\ t[i] \in Whitespace THEN SkipWs(t, i + 1) ELSE i

\* The index of the first `"` at or after i, 0 when there is none.  The
\* texts drawn hold no backslash and no control character inside a string.
RECURSIVE CloseQuote(_, _)
CloseQuote(t, i) ==
    IF i > Len(t) THEN 0
    ELSE IF t[i] = "\"" THEN i
    ELSE CloseQuote(t, i + 1)

\* The index after the run of digits that starts at i.
RECURSIVE DigitsEnd(_, _)
DigitsEnd(t, i) ==
    IF i <= Len(t) /\ t[i] \in Digits THEN DigitsEnd(t, i + 1) ELSE i

\* Whether t holds the literal w at index i.
HasAt(t, i, w) ==
    /\ i + Len(w) - 1 <= Len(t)
    /\ SubSeq(t, i, i + Len(w) - 1) = w

\* A string at i (t[i] is the opening quote).
ParseString(t, i) ==
    LET j == CloseQuote(t, i + 1)
    IN IF j = 0 THEN PFail ELSE POk(JStr(SubSeq(t, i + 1, j - 1)), j + 1)

\* A number at i: 0, or a nonzero digit followed by digits.
ParseNumber(t, i) ==
    LET j == IF t[i] = "0" THEN i + 1 ELSE DigitsEnd(t, i)
    IN POk(JNum(SubSeq(t, i, j - 1)), j)

RECURSIVE ParseValue(_, _)
RECURSIVE ParseElements(_, _, _)
RECURSIVE ParseMembers(_, _, _)

\* The value that starts at index i of t (no leading whitespace).
ParseValue(t, i) ==
    IF i > Len(t) THEN PFail
    ELSE IF t[i] = "\"" THEN ParseString(t, i)
    ELSE IF t[i] \in Digits THEN ParseNumber(t, i)
    ELSE IF HasAt(t, i, <<"n","u","l","l">>) THEN POk(JNull, i + 4)
    ELSE IF HasAt(t, i, <<"t","r","u","e">>)
        THEN POk(JBool(<<"t","r","u","e">>), i + 4)
    ELSE IF HasAt(t, i, <<"f","a","l","s","e">>)
        THEN POk(JBool(<<"f","a","l","s","e">>), i + 5)
    ELSE IF t[i] = "["
        THEN LET j == SkipWs(t, i + 1)
             IN IF j <= Len(t) /\ t[j] = "]" THEN POk(JList(<<>>), j + 1)
                ELSE ParseElements(t, j, <<>>)
    ELSE IF t[i] = "{"
        THEN LET j == SkipWs(t, i + 1)
             IN IF j <= Len(t) /\ t[j] = "}" THEN POk(JDict(EmptyMap), j + 1)
                ELSE ParseMembers(t, j, EmptyMap)
    ELSE PFail

\* The elements of a list from index i on, acc holding those read so far.
ParseElements(t, i, acc) ==
    LET v == ParseValue(t, i)
        j == SkipWs(t, v.next)
    IN IF ~v.ok \/ j > Len(t) THEN PFail
       ELSE IF t[j] = "]" THEN POk(JList(Append(acc, v.val)), j + 1)
       ELSE IF t[j] = ","
           THEN ParseElements(t, SkipWs(t, j + 1), Append(acc, v.val))
       ELSE PFail

\* The members of an object from index i on, acc holding those read so far.
ParseMembers(t, i, acc) ==
    IF i > Len(t) \/ t[i] # "\"" THEN PFail
    ELSE LET k == ParseString(t, i)
             c == SkipWs(t, k.next)
         IN IF ~k.ok \/ c > Len(t) \/ t[c] # ":" THEN PFail
            ELSE LET v == ParseValue(t, SkipWs(t, c + 1))
                     j == SkipWs(t, v.next)
                     acc2 == MapPut(acc, k.val.s, v.val)
                 IN IF ~v.ok \/ j > Len(t) THEN PFail
                    ELSE IF t[j] = "}" THEN POk(JDict(acc2), j + 1)
                    ELSE IF t[j] = ","
                        THEN ParseMembers(t, SkipWs(t, j + 1), acc2)
                    ELSE PFail

\* json.loads(t): ok is FALSE where it raises JSONDecodeError (no value, or
\* text after the value).
JsonLoads(t) ==
    LET v == ParseValue(t, SkipWs(t, 1))
    IN IF v.ok /\ SkipWs(t, v.next) > Len(t) THEN v ELSE PFail

\* Python truthiness of a decoded value.
Truthy(v) ==
    CASE v.type = "null" -> FALSE
      [] v.type = "str" -> v.s # <<>>
      [] v.type = "num" -> v.s # <<"0">>
      [] v.type = "bool" -> v.s = <<"t","r","u","e">>
      [] v.type = "list" -> v.items # <<>>
      [] v.type = "dict" -> DOMAIN v.m # {}

\* str(v) inside an f-string, for the values that are texts.
StrOf(v) == IF v.type = "null" THEN <<"None">> ELSE v.s

\* ------------------------------------------------------- literal texts
\* agent.py:14-21
SYSTEM_PROMPT == <<"You are Mayank Kumar Pokhriyal, ... Speak like a human.\n">>
\* agent.py:181-192
EXTRACTION_SYSTEM == <<"You are an information extraction assistant. ...">>
\* agent.py:71-78
REPLY_FOLLOW_UP == <<"Thanks for reaching out about a potential opportunity! ... could you please share: ...">>
\* agent.py:59-63
REPLY_LOG_FAILED == <<"Thanks for your interest ... ran into an internal logging issue. ...">>
\* agent.py:111
REPLY_REPHRASE == <<"I heard your question, but I'm not sure how to answer that. Could you rephrase?">>
\* agent.py:114-117
REPLY_OLLAMA_DOWN == <<"I ran into an issue talking to my local AI engine (Ollama). Please make sure the Ollama server is running and the model is available.">>
\* tools.py:30
WORKSHEET_NAME == <<"Recruiter_Leads">>

\* The keys of a lead and of the sink's result (agent.py:185-189, tools.py:109,128).
K_recruiter_name == <<"r","e","c","r","u","i","t","e","r","_","n","a","m","e">>
K_company == <<"c","o","m","p","a","n","y">>
K_role == <<"r","o","l","e">>
K_contact == <<"c","o","n","t","a","c","t">>
K_notes == <<"n","o","t","e","s">>
K_status == <<"s","t","a","t","u","s">>
K_timestamp == <<"t","i","m","e","s","t","a","m","p">>
K_worksheet == <<"w","o","r","k","s","h","e","e","t">>

\* agent.py:170-172
HiringKeys == {<<"h","i","r","i","n","g">>, <<"r","e","c","r","u","i","t","e","r">>, <<"r","o","l","e">>,
               <<"p","o","s","i","t","i","o","n">>, <<"j","o","b">>, <<"o","p","e","n","i","n","g">>}
ContactKeys == {<<"e","m","a","i","l">>, <<"@">>, <<"c","o","n","t","a","c","t">>,
                <<"r","e","a","c","h">>, <<"p","h","o","n","e">>}
\* agent.py:125,134,143,154
EducationKeys == {<<"e","d","u","c","a","t","i","o","n">>, <<"d","e","g","r","e","e">>, <<"u","n","i","v","e","r","s","i","t","y">>, <<"c","o","l","l","e","g","e">>}
ExperienceKeys == {<<"e","x","p","e","r","i","e","n","c","e">>, <<"w","o","r","k">>, <<"j","o","b">>, <<"r","o","l","e","s">>, <<"k","y","n","d","r","y","l">>, <<"i","b","m">>}
SkillsKeys == {<<"s","k","i","l","l">>, <<"s","t","a","c","k">>, <<"t","e","c","h">>, <<"t","o","o","l","s">>}
ProjectKeys == {<<"p","r","o","j","e","c","t">>}
\* The section names _build_profile_context asks for.
S_education == <<"e","d","u","c","a","t","i","o","n">>
S_experience == <<"e","x","p","e","r","i","e","n","c","e">>
S_skills == <<"s","k","i","l","l","s">>
S_projects == <<"p","r","o","j","e","c","t","s">>

\* ------------------------------------------------------------- inputs
\* User messages (the chat input of app.py:22).
PromptHello == <<"H","e","l","l","o">>
PromptSkills == <<"M","y"," ","S","k","i","l","l","s","?">>
PromptDegree == <<"d","e","g","r","e","e",","," ","p","r","o","j","e","c","t">>
PromptJob == <<"A","n","y"," ","J","O","B">>
PromptHiring == <<"H","i","r","i","n","g",":"," ","a","@","b">>
PromptRoles == <<"r","o","l","e","s","?"," ","P","h","o","n","e">>
Prompts ==
    {PromptHello, PromptSkills, PromptDegree, PromptJob, PromptHiring, PromptRoles}

\* Texts the model returns (the content of ollama.chat's message).
TextPlain == <<"H","i">>
TextPadded == <<" ","H","i","\n">>
TextEmpty == <<>>
TextBlank == <<" ","\n">>
TextLeadFull == <<"{","\"","r","e","c","r","u","i","t","e","r","_","n","a","m","e","\"",":","\"","A","\"",",","\"","c","o","m","p","a","n","y","\"",":","\"","B","\"",",","\"","r","o","l","e","\"",":","\"","C","\"",",","\"","c","o","n","t","a","c","t","\"",":","\"","D","\"",",","\"","n","o","t","e","s","\"",":","\"","E","\"","}">>
TextLeadNoNotes == <<"{","\"","r","e","c","r","u","i","t","e","r","_","n","a","m","e","\"",":","\"","A","\"",",","\"","c","o","m","p","a","n","y","\"",":","\"","B","\"",",","\"","r","o","l","e","\"",":","\"","C","\"",",","\"","c","o","n","t","a","c","t","\"",":","\"","D","\"","}">>
TextLeadStamped == <<"{","\"","r","e","c","r","u","i","t","e","r","_","n","a","m","e","\"",":","\"","A","\"",",","\"","c","o","m","p","a","n","y","\"",":","\"","B","\"",",","\"","r","o","l","e","\"",":","\"","C","\"",",","\"","c","o","n","t","a","c","t","\"",":","\"","D","\"",",","\"","n","o","t","e","s","\"",":","\"","\"",",","\"","t","i","m","e","s","t","a","m","p","\"",":","\"","X","\"","}">>
TextLeadEmptyContact == <<"{","\"","r","e","c","r","u","i","t","e","r","_","n","a","m","e","\"",":","\"","A","\"",",","\"","c","o","m","p","a","n","y","\"",":","\"","B","\"",",","\"","r","o","l","e","\"",":","\"","C","\"",",","\"","c","o","n","t","a","c","t","\"",":","\"","\"",",","\"","n","o","t","e","s","\"",":","\"","E","\"","}">>
TextLeadBraced == <<"{","\"","r","e","c","r","u","i","t","e","r","_","n","a","m","e","\"",":","\"","A","\"",",","\"","c","o","m","p","a","n","y","\"",":","\"","B","\"",",","\"","r","o","l","e","\"",":","\"","C","\"",",","\"","c","o","n","t","a","c","t","\"",":","\"","D","\"",",","\"","n","o","t","e","s","\"",":","\"","{","E","}","\"","}">>
TextLeadNoRole == <<" ","{","\"","r","e","c","r","u","i","t","e","r","_","n","a","m","e","\"",":"," ","\"","A","\"",","," ","\"","c","o","m","p","a","n","y","\"",":"," ","\"","B","\"",","," ","\"","c","o","n","t","a","c","t","\"",":"," ","\"","D","\"",","," ","\"","n","o","t","e","s","\"",":"," ","\"","E","\"","}">>
TextList == <<"[","\"","A","\"","]">>
TextEmptyList == <<"[","]">>
TextNumber == <<"7">>
TextString == <<"\"","A","\"">>
TextNull == <<"n","u","l","l">>
TextEmptyDict == <<"{","}">>
TextUnbalanced == <<"{","\"","r","o","l","e","\"",":","\"","C","\"">>
TextTrailing == <<"{","\"","r","o","l","e","\"",":","\"","C","\"","}"," ","H","i">>
TextToolCall == <<"{","\"","a","c","t","i","o","n","\"",":","\"","t","o","o","l","\"",",","\"","t","o","o","l","_","n","a","m","e","\"",":","\"","g","e","t","_","p","r","o","f","i","l","e","_","s","e","c","t","i","o","n","\"",",","\"","a","c","t","i","o","n","_","i","n","p","u","t","\"",":","{","}","}">>
ModelTexts ==
    {TextPlain, TextPadded, TextEmpty, TextBlank, TextLeadFull, TextLeadNoNotes,
     TextLeadStamped, TextLeadBraced, TextLeadEmptyContact, TextLeadNoRole, TextList,
     TextEmptyList, TextNumber, TextString, TextNull, TextEmptyDict,
     TextUnbalanced, TextTrailing, TextToolCall}

\* ------------------------------------------------------- profile data
\* profile.json as _load_profile reads it: a sequence of <<key, value>> in the
\* file's order.  A section is a list of entries, or (skills) one mapping.
ProfileFull ==
    << <<<<"e","d","u","c","a","t","i","o","n">>,
         << [degree |-> <<"MSc">>, institution |-> <<"UoX">>, period |-> <<"2023">>] >> >>,
       <<<<"e","x","p","e","r","i","e","n","c","e">>,
         << [title |-> <<"Engineer">>, company |-> <<"Kyndryl">>, period |-> <<"2021">>] >> >>,
       <<<<"s","k","i","l","l","s">>,
         [languages |-> << <<"Python">>, <<"SQL">> >>, ml_dl |-> << <<"PyTorch">> >>,
          tools |-> << <<"Docker">> >>, domains |-> <<>>] >>,
       <<<<"p","r","o","j","e","c","t","s">>,
         << [name |-> <<"A","g","e","n","t">>, description |-> <<"An agentic profile">>],
            [name |-> <<"L","e","n","s">>, description |-> <<"A vision demo">>] >> >> >>

\* A profile with an empty education list and no projects section.
ProfileSparse ==
    << <<<<"e","d","u","c","a","t","i","o","n">>, <<>> >>,
       <<<<"S","k","i","l","l","s">>,
         [languages |-> <<>>, ml_dl |-> <<>>, tools |-> <<>>, domains |-> <<>>] >> >>

\* A profile whose projects hold two names equal up to letter case and a name
\* with a leading blank, and whose keys are not all lower-case.
ProfilePortfolio ==
    << <<<<"s","k","i","l","l","s">>,
         [languages |-> << <<"Python">> >>, ml_dl |-> <<>>, tools |-> <<>>, domains |-> <<>>] >>,
       <<<<"J","o","b","_","P","r","e","f","e","r","e","n","c","e","s">>, [roles |-> << <<"AI Engineer">> >>] >>,
       <<<<"p","r","o","j","e","c","t","s">>,
         << [name |-> <<"A","g","e","n","t">>, description |-> <<"The first of this name">>],
            [name |-> <<"A","G","E","N","T">>, description |-> <<"The second of this name">>],
            [name |-> <<" ","V","i","s","i","o","n">>, description |-> <<"A name with a leading blank">>] >> >> >>

\* What the file system holds at _PROFILE_PATH: no file, or a profile.
ProfileFiles ==
    { [exists |-> FALSE, data |-> <<>>],
      [exists |-> TRUE, data |-> ProfileFull],
      [exists |-> TRUE, data |-> ProfileSparse] }

\* The profile files the lookup tools are called against.
LookupFiles ==
    ProfileFiles \cup {[exists |-> TRUE, data |-> ProfilePortfolio]}

\* _PROFILE_CACHE = None
CacheNone == [loaded |-> FALSE, data |-> <<>>]

\* _load_profile(): raised is TRUE where it raises FileNotFoundError; cache
\* is _PROFILE_CACHE after the call.
LoadProfile(cache, file) ==
    IF cache.loaded THEN [raised |-> FALSE, cache |-> cache]
    ELSE IF ~file.exists THEN [raised |-> TRUE, cache |-> cache]
    ELSE [raised |-> FALSE, cache |-> [loaded |-> TRUE, data |-> file.data]]

\* The first item of the profile whose lower-cased key is `key`, 0 if none.
FirstKey(profile, key) ==
    IF \E i \in 1..Len(profile) : Lower(profile[i][1]) = key
    THEN CHOOSE i \in 1..Len(profile) :
            /\ Lower(profile[i][1]) = key
            /\ \A j \in 1..(i - 1) : Lower(profile[j][1]) # key
    ELSE 0

\* What a lookup gives: raised as _load_profile; found is FALSE where it
\* returns None; consulted tells whether _load_profile was called.
LookupRaised(cache) ==
    [raised |-> TRUE, found |-> FALSE, value |-> <<>>, cache |-> cache, consulted |-> TRUE]
LookupNone(cache, consulted) ==
    [raised |-> FALSE, found |-> FALSE, value |-> <<>>, cache |-> cache,
     consulted |-> consulted]
LookupFound(value, cache) ==
    [raised |-> FALSE, found |-> TRUE, value |-> value, cache |-> cache, consulted |-> TRUE]

\* The first item of the profile whose key, as written, is `key`, 0 if none.
FirstKeyExact(profile, key) ==
    IF \E i \in 1..Len(profile) : profile[i][1] = key
    THEN CHOOSE i \in 1..Len(profile) :
            /\ profile[i][1] = key
            /\ \A j \in 1..(i - 1) : profile[j][1] # key
    ELSE 0

\* A lookup that compares the profile's keys without lower-casing them.
GetProfileSectionExact(section_name, cache, file) ==
    IF ~Truthy(section_name) THEN LookupNone(cache, FALSE)
    ELSE LET l == LoadProfile(cache, file)
             i == FirstKeyExact(l.cache.data, Strip(Lower(section_name.s)))
         IN IF l.raised THEN LookupRaised(l.cache)
            ELSE IF i = 0 THEN LookupNone(l.cache, TRUE)
            ELSE LookupFound(l.cache.data[i][2], l.cache)

\* get_profile_section(section_name), section_name a text (JStr) or None.
GetProfileSection(section_name, cache, file) ==
    IF ~Truthy(section_name) THEN LookupNone(cache, FALSE)
    ELSE LET l == LoadProfile(cache, file)
             i == FirstKey(l.cache.data, Strip(Lower(section_name.s)))
         IN IF l.raised THEN LookupRaised(l.cache)
            ELSE IF i = 0 THEN LookupNone(l.cache, TRUE)
            ELSE LookupFound(l.cache.data[i][2], l.cache)

\* profile.get("projects", []): the value of the key "projects", exactly so
\* spelled, or the empty list.
ProjectsOf(profile) ==
    IF \E i \in 1..Len(profile) : profile[i][1] = S_projects
    THEN profile[CHOOSE i \in 1..Len(profile) : profile[i][1] = S_projects][2]
    ELSE <<>>

\* The first project whose lower-cased name is `name`, 0 if none.  (Every
\* project of the profiles drawn has a text as its name.)
FirstProject(projects, name) ==
    IF \E i \in 1..Len(projects) : Lower(projects[i].name) = name
    THEN CHOOSE i \in 1..Len(projects) :
            /\ Lower(projects[i].name) = name
            /\ \A j \in 1..(i - 1) : Lower(projects[j].name) # name
    ELSE 0

\* The first project whose name, as written, is `name`, 0 if none.
FirstProjectExact(projects, name) ==
    IF \E i \in 1..Len(projects) : projects[i].name = name
    THEN CHOOSE i \in 1..Len(projects) :
            /\ projects[i].name = name
            /\ \A j \in 1..(i - 1) : projects[j].name # name
    ELSE 0

\* A lookup that compares the project's name without lower-casing it.
GetProjectDetailsExact(project_name, cache, file) ==
    IF ~Truthy(project_name) THEN LookupNone(cache, FALSE)
    ELSE LET l == LoadProfile(cache, file)
             projects == ProjectsOf(l.cache.data)
             i == FirstProjectExact(projects, Strip(Lower(project_name.s)))
         IN IF l.raised THEN LookupRaised(l.cache)
            ELSE IF i = 0 THEN LookupNone(l.cache, TRUE)
            ELSE LookupFound(projects[i], l.cache)

\* A lookup that loads the profile before it looks at its argument.
GetProjectDetailsLoadFirst(project_name, cache, file) ==
    LET l == LoadProfile(cache, file)
        projects == ProjectsOf(l.cache.data)
        i == FirstProject(projects, Strip(Lower(project_name.s)))
    IN IF l.raised THEN LookupRaised(l.cache)
       ELSE IF ~Truthy(project_name) \/ i = 0 THEN LookupNone(l.cache, TRUE)
       ELSE LookupFound(projects[i], l.cache)

\* get_project_details(project_name), project_name a text (JStr) or None.
GetProjectDetails(project_name, cache, file) ==
    IF ~Truthy(project_name) THEN LookupNone(cache, FALSE)
    ELSE LET l == LoadProfile(cache, file)
             projects == ProjectsOf(l.cache.data)
             i == FirstProject(projects, Strip(Lower(project_name.s)))
         IN IF l.raised THEN LookupRaised(l.cache)
            ELSE IF i = 0 THEN LookupNone(l.cache, TRUE)
            ELSE LookupFound(projects[i], l.cache)

\* ------------------------------------------- _build_profile_context
\* [f(x) for x in xs]
RECURSIVE MapSeq(_, _)
MapSeq(F(_), xs) ==
    IF xs = <<>> THEN <<>> ELSE <<F(Head(xs))>> \o MapSeq(F, Tail(xs))

EduLine(e) ==
    <<"- ">> \o e.degree \o <<" at ">> \o e.institution \o <<" (">> \o e.period \o <<")">>
ExpLine(e) ==
    <<"- ">> \o e.title \o <<" at ">> \o e.company \o <<" (">> \o e.period \o <<")">>
ProjLine(p) == <<"- ">> \o p.name \o <<": ">> \o p.description

\* The four blocks of _build_profile_context in order: the keywords that
\* select the block and the section it asks for.
ContextBlocks ==
    << [keys |-> EducationKeys, section |-> S_education],
       [keys |-> ExperienceKeys, section |-> S_experience],
       [keys |-> SkillsKeys, section |-> S_skills],
       [keys |-> ProjectKeys, section |-> S_projects] >>

\* Whether the section value is truthy (a non-empty list or mapping).
SectionTruthy(b, value) == IF b = 3 THEN TRUE ELSE value # <<>>

\* The part block b appends for a truthy section value.
FormatPart(b, value) ==
    CASE b = 1 -> <<"Education:\n">> \o Join(<<"\n">>, MapSeq(EduLine, value))
      [] b = 2 -> <<"Experience:\n">> \o Join(<<"\n">>, MapSeq(ExpLine, value))
      [] b = 3 -> <<"Skills:\n">>
                  \o <<"- Languages: ">> \o Join(<<", ">>, value.languages) \o <<"\n">>
                  \o <<"- ML/DL: ">> \o Join(<<", ">>, value.ml_dl) \o <<"\n">>
                  \o <<"- Tools: ">> \o Join(<<", ">>, value.tools) \o <<"\n">>
                  \o <<"- Domains: ">> \o Join(<<", ">>, value.domains)
      [] b = 4 -> <<"Projects (subset):\n">>
                  \o Join(<<"\n">>, MapSeq(ProjLine, SubSeq(value, 1, IF Len(value) < 5 THEN Len(value) ELSE 5)))

\* Blocks b..4 of _build_profile_context on the lower-cased message, with the
\* parts collected so far and the cache as the earlier blocks left it.
RECURSIVE ContextFrom(_, _, _, _, _)
ContextFrom(b, lower, parts, cache, file) ==
    IF b > Len(ContextBlocks)
    THEN [raised |-> FALSE, text |-> Join(<<"\n\n">>, parts), cache |-> cache]
    ELSE IF ~AnyIn(ContextBlocks[b].keys, lower)
    THEN ContextFrom(b + 1, lower, parts, cache, file)
    ELSE LET r == GetProfileSection(JStr(ContextBlocks[b].section), cache, file)
         IN IF r.raised THEN [raised |-> TRUE, text |-> <<>>, cache |-> r.cache]
            ELSE IF r.found /\ SectionTruthy(b, r.value)
            THEN ContextFrom(b + 1, lower, Append(parts, FormatPart(b, r.value)),
                             r.cache, file)
            ELSE ContextFrom(b + 1, lower, parts, r.cache, file)

\* _build_profile_context(user_message)
BuildProfileContext(user_message, cache, file) ==
    ContextFrom(1, Lower(user_message), <<>>, cache, file)

\* ------------------------------------------------------------ agent.py
\* A heuristic that asks for a hiring keyword alone.
LooksLikeRecruiterHiringOnly(text) == AnyIn(HiringKeys, Lower(text))

\* _looks_like_recruiter_message(text)
LooksLikeRecruiterMessage(text) ==
    LET lower == Lower(text)
    IN AnyIn(HiringKeys, lower) /\ AnyIn(ContactKeys, lower)

\* What ollama.chat gives: a failure (any exception), or a message text.
ModelFailure == [ok |-> FALSE, text |-> <<>>]
ModelReply(t) == [ok |-> TRUE, text |-> t]
ModelOutcomes(texts) == {ModelFailure} \cup {ModelReply(t) : t \in texts}

\* _extract_recruiter_lead(text), given the model's outcome: the pair
\* (lead, raw response); lead is None where the call or json.loads raised.
ExtractRecruiterLead(outcome) ==
    IF ~outcome.ok THEN [lead |-> JNull, extracted |-> <<>>]
    ELSE LET content == Strip(outcome.text)
             p == JsonLoads(content)
         IN IF p.ok THEN [lead |-> p.val, extracted |-> content]
            ELSE [lead |-> JNull, extracted |-> <<>>]

\* lead.get(key) and lead.get(key, default) on a mapping.
LeadGet(lead, key) == IF key \in DOMAIN lead.m THEN lead.m[key] ELSE JNull
LeadGetOr(lead, key, default) ==
    IF key \in DOMAIN lead.m THEN lead.m[key] ELSE default

\* The four fields _has_minimum_lead_fields asks for.
MinimumLeadFields == {K_recruiter_name, K_company, K_role, K_contact}

\* A check of the four keys' presence, not of their values.
HasLeadKeys(lead) ==
    IF ~Truthy(lead) THEN FALSE
    ELSE \A k \in MinimumLeadFields : k \in DOMAIN lead.m

\* _has_minimum_lead_fields(lead), for a lead that has .get (a mapping) or
\* is falsy.
HasMinimumLeadFields(lead) ==
    IF ~Truthy(lead) THEN FALSE
    ELSE \A k \in MinimumLeadFields : Truthy(LeadGet(lead, k))

\* `lead and _has_minimum_lead_fields(lead)` of run_agent: "log" where it is
\* true, "follow_up" where it is false, "AttributeError" where lead is truthy
\* and has no .get (a list, a string, a number, True).
LeadGate(lead) ==
    IF ~Truthy(lead) THEN "follow_up"
    ELSE IF lead.type # "dict" THEN "AttributeError"
    ELSE IF HasMinimumLeadFields(lead) THEN "log"
    ELSE "follow_up"

\* The TurnResult run_agent returns.
TurnResult(response, lead_logged, lead_payload) ==
    [response |-> response, lead_logged |-> lead_logged,
     lead_payload |-> lead_payload]

\* No TurnResult (run_agent has not returned).
NoResult == TurnResult(<<>>, FALSE, JNull)

\* The reply of a logged lead.
RecordedReply(lead) ==
    <<"Thank you for reaching out about this opportunity.\n\nI've recorded your details as:\n">>
    \o <<"- Name: ">> \o StrOf(LeadGet(lead, K_recruiter_name)) \o <<"\n">>
    \o <<"- Company: ">> \o StrOf(LeadGet(lead, K_company)) \o <<"\n">>
    \o <<"- Role: ">> \o StrOf(LeadGet(lead, K_role)) \o <<"\n">>
    \o <<"- Contact: ">> \o StrOf(LeadGet(lead, K_contact)) \o <<"\n">>
    \o <<"- Notes: ">> \o StrOf(LeadGetOr(lead, K_notes, JStr(<<>>))) \o <<"\n\n">>
    \o <<"I'll review this role and get back to you as soon as possible.">>

\* The messages _extract_recruiter_lead sends.
ExtractionMessages(text) ==
    << [role |-> "system", content |-> EXTRACTION_SYSTEM],
       [role |-> "user", content |-> text] >>

\* The history entries _answer_with_profile keeps, as it copies them.
RECURSIVE FilterHistory(_)
FilterHistory(history) ==
    IF history = <<>> THEN <<>>
    ELSE IF Head(history).role \in {"user", "assistant"}
    THEN <<[role |-> Head(history).role, content |-> Head(history).content]>>
         \o FilterHistory(Tail(history))
    ELSE FilterHistory(Tail(history))

\* The messages with the whole history, unfiltered.
AnswerMessagesUnfiltered(user_message, history, profile_snippets) ==
    <<[role |-> "system", content |-> SYSTEM_PROMPT \o <<"\n">> \o profile_snippets]>>
    \o [i \in 1..Len(history) |->
            [role |-> history[i].role, content |-> history[i].content]]
    \o <<[role |-> "user", content |-> user_message]>>

\* The messages _answer_with_profile sends.
AnswerMessages(user_message, history, profile_snippets) ==
    <<[role |-> "system", content |-> SYSTEM_PROMPT \o <<"\n">> \o profile_snippets]>>
    \o FilterHistory(history)
    \o <<[role |-> "user", content |-> user_message]>>

\* An answer that replaces structured model text by the rephrase request.
AnswerTextDecoded(outcome) ==
    IF ~outcome.ok THEN REPLY_OLLAMA_DOWN
    ELSE LET content == Strip(outcome.text)
         IN IF content = <<>> \/ JsonLoads(content).ok
            THEN REPLY_REPHRASE
            ELSE content

\* The structured-object delimiters, and whether a text holds one.
Delimiters == {"{", "}"}
HasDelimiters(t) == \E i \in 1..Len(t) : t[i] \in Delimiters

\* The index of the last closing delimiter of t, 0 when there is none.
LastClose(t) ==
    IF \E i \in 1..Len(t) : t[i] = "}"
    THEN CHOOSE i \in 1..Len(t) : t[i] = "}" /\ \A j \in (i + 1)..Len(t) : t[j] # "}"
    ELSE 0

\* The fragment after the last closing delimiter, trimmed, of a text that
\* holds delimiters; any other text as it is.
Sanitized(t) ==
    IF HasDelimiters(t) THEN Strip(SubSeq(t, LastClose(t) + 1, Len(t))) ELSE t

\* An answer that keeps only what follows the last closing delimiter.
AnswerTextSanitized(outcome) ==
    IF ~outcome.ok THEN REPLY_OLLAMA_DOWN
    ELSE LET content == Strip(outcome.text)
         IN IF content = <<>> THEN REPLY_REPHRASE ELSE Sanitized(content)

\* What _answer_with_profile returns for the model's outcome.
AnswerText(outcome) ==
    IF ~outcome.ok THEN REPLY_OLLAMA_DOWN
    ELSE LET content == Strip(outcome.text)
         IN IF content = <<>> THEN REPLY_REPHRASE ELSE content

\* ------------------------------------------------- log_recruiter_lead
\* tools.py:109
RequiredKeys == {K_recruiter_name, K_company, K_role, K_contact, K_notes}

\* required_keys - set(lead.keys())
MissingKeys(lead) == RequiredKeys \ DOMAIN lead.m

DigitChar == <<"0","1","2","3","4","5","6","7","8","9">>

\* The decimal digits of n.
RECURSIVE Decimal(_)
Decimal(n) ==
    IF n < 10 THEN <<DigitChar[n + 1]>>
    ELSE Decimal(n \div 10) \o <<DigitChar[(n % 10) + 1]>>

\* datetime.utcnow().isoformat() for the clock reading n.
IsoFormat(n) == <<"T">> \o Decimal(n)

\* The row log_recruiter_lead appends.
LeadRow(timestamp, lead) ==
    << JStr(timestamp),
       LeadGetOr(lead, K_recruiter_name, JStr(<<>>)),
       LeadGetOr(lead, K_company, JStr(<<>>)),
       LeadGetOr(lead, K_role, JStr(<<>>)),
       LeadGetOr(lead, K_contact, JStr(<<>>)),
       LeadGetOr(lead, K_notes, JStr(<<>>)) >>

\* The mapping log_recruiter_lead returns.
LogResult(timestamp) ==
    MapPut(MapPut(MapPut(EmptyMap, K_status, JStr(<<"s","u","c","c","e","s","s">>)),
                  K_timestamp, JStr(timestamp)),
           K_worksheet, JStr(WORKSHEET_NAME))

\* An append that writes over what another writer appended.
AppendRowClobber(rows, row) == <<row>>

\* An append that writes the row twice.
AppendRowTwice(rows, row) == Append(Append(rows, row), row)

\* worksheet.append_row(row)
AppendRow(rows, row) == Append(rows, row)

\* What the sheet collaborator does when asked: "ok", or the credentials
\* file is missing, or the Sheets API raises before the row is appended.
SinkOutcomes == {"ok", "no_credentials", "api_error"}

\* log_recruiter_lead(lead) against the sheet `rows`, the collaborator
\* answering `outcome` and the clock reading `now`: raised names the
\* exception ("" for none), rows is the sheet afterwards, result the mapping
\* returned.
LogRecruiterLead(lead, rows, outcome, now) ==
    IF MissingKeys(lead) # {}
    THEN [raised |-> "ValueError", rows |-> rows, result |-> EmptyMap]
    ELSE IF outcome = "no_credentials"
    THEN [raised |-> "FileNotFoundError", rows |-> rows, result |-> EmptyMap]
    ELSE IF outcome = "api_error"
    THEN [raised |-> "APIError", rows |-> rows, result |-> EmptyMap]
    ELSE [raised |-> "",
          rows |-> AppendRow(rows, LeadRow(IsoFormat(now), lead)),
          result |-> LogResult(IsoFormat(now))]

\* lead_logged set before log_recruiter_lead is called, and kept when it raises.
LogAndReplyFlagKept(lead, rows, outcome, now) ==
    LET l == LogRecruiterLead(lead, rows, outcome, now)
    IN IF l.raised = ""
       THEN [result |-> TurnResult(RecordedReply(lead), TRUE,
                                   JDict(MapMerge(lead.m, l.result))),
             rows |-> l.rows, raised |-> l.raised]
       ELSE [result |-> TurnResult(REPLY_LOG_FAILED, TRUE, JNull),
             rows |-> l.rows, raised |-> l.raised]

\* A reply to a failed logging that still hands the lead back as the payload.
LogAndReplyPayloadKept(lead, rows, outcome, now) ==
    LET l == LogRecruiterLead(lead, rows, outcome, now)
    IN IF l.raised = ""
       THEN [result |-> TurnResult(RecordedReply(lead), TRUE,
                                   JDict(MapMerge(lead.m, l.result))),
             rows |-> l.rows, raised |-> l.raised]
       ELSE [result |-> TurnResult(REPLY_LOG_FAILED, FALSE, lead),
             rows |-> l.rows, raised |-> l.raised]

\* Lines 37-68 of run_agent for a lead that passed the gate: the TurnResult
\* and the sheet afterwards.
LogAndReply(lead, rows, outcome, now) ==
    LET l == LogRecruiterLead(lead, rows, outcome, now)
    IN IF l.raised = ""
       THEN [result |-> TurnResult(RecordedReply(lead), TRUE,
                                   JDict(MapMerge(lead.m, l.result))),
             rows |-> l.rows, raised |-> l.raised]
       ELSE [result |-> TurnResult(REPLY_LOG_FAILED, FALSE, JNull),
             rows |-> l.rows, raised |-> l.raised]

\* ------------------------------------------------------ state machine
\* Chat sessions (Streamlit runs each in its own thread of one process).
Sessions == {1, 2}

\* Prompts one session submits.
MaxTurns == 1
\* Readings of the clock datetime.utcnow() takes.
MaxClock == 2
\* Entries of a history handed to run_agent by a caller other than app.py.
MaxHistory == 2
\* Direct calls of get_profile_section and get_project_details.
MaxLookups == 2

VARIABLES
    messages,       \* st.session_state["messages"] of each session
    leads,          \* st.session_state["leads"] of each session
    errors,         \* st.session_state["errors"] of each session
    pc,             \* where each session's prompt handler stands
    prompt,         \* run_agent's user_message
    chat_history,   \* run_agent's chat_history
    lead,           \* run_agent's lead (None before extraction)
    profile_snippets, \* _answer_with_profile's profile_snippets
    result,         \* the TurnResult run_agent returned
    exc,            \* the exception run_agent raised ("" for none)
    sent,           \* the messages of the turn's model call
    model_calls,    \* ollama.chat calls of the turn
    model_out,      \* what ollama.chat gave in the turn
    sink_out,       \* what the sheet gave in the turn; what log_recruiter_lead raised
    turn_rows,      \* rows the turn appended to the sheet
    appended,       \* rows each session's turns appended to the sheet
    PROFILE_CACHE,  \* tools._PROFILE_CACHE
    profile_file,   \* the file at _PROFILE_PATH
    worksheet,      \* the rows of the recruiter-leads worksheet
    turns,          \* prompts each session has submitted
    lookups         \* the lookup tools' direct calls so far and what each gave

vars ==
    <<messages, leads, errors, pc, prompt, chat_history, lead, profile_snippets,
      result, exc, sent, model_calls, model_out, sink_out, turn_rows, appended,
      PROFILE_CACHE, profile_file, worksheet, turns, lookups>>

\* The variables of one run_agent call, but its arguments.
frame ==
    <<lead, profile_snippets, result, exc, sent, model_calls, model_out,
      sink_out, turn_rows>>

\* log_recruiter_lead was not called.
NoSinkOut == [outcome |-> "", now |-> 0, raised |-> ""]

\* A fresh run_agent frame for every session.
FreshFrames ==
    /\ lead = [s \in Sessions |-> JNull]
    /\ profile_snippets = [s \in Sessions |-> <<>>]
    /\ result = [s \in Sessions |-> NoResult]
    /\ exc = [s \in Sessions |-> ""]
    /\ sent = [s \in Sessions |-> <<>>]
    /\ model_calls = [s \in Sessions |-> 0]
    /\ model_out = [s \in Sessions |-> ModelFailure]
    /\ sink_out = [s \in Sessions |-> NoSinkOut]
    /\ turn_rows = [s \in Sessions |-> 0]

\* The process as started, the profile file being one of `files`: nothing
\* cached, an empty sheet, no session state.
FreshWith(files) ==
    /\ messages = [s \in Sessions |-> <<>>]
    /\ leads = [s \in Sessions |-> <<>>]
    /\ errors = [s \in Sessions |-> <<>>]
    /\ appended = [s \in Sessions |-> 0]
    /\ PROFILE_CACHE = CacheNone
    /\ profile_file \in files
    /\ worksheet = <<>>
    /\ turns = [s \in Sessions |-> 0]
    /\ lookups = <<>>

FreshProcess == FreshWith(ProfileFiles)

\* The state after each session's script has run once with no prompt
\* (app.py:10-13).
Init ==
    /\ FreshProcess
    /\ FreshFrames
    /\ pc = [s \in Sessions |-> "idle"]
    /\ prompt = [s \in Sessions |-> <<>>]
    /\ chat_history = [s \in Sessions |-> <<>>]

\* app.py:24-31: the user turn is appended and run_agent is called with the
\* messages before it.
SubmitPrompt(s) ==
    /\ pc[s] = "idle"
    /\ turns[s] < MaxTurns
    /\ \E p \in Prompts :
        /\ messages' = [messages EXCEPT ![s] = Append(@, [role |-> "user", content |-> p])]
        /\ prompt' = [prompt EXCEPT ![s] = p]
    /\ chat_history' = [chat_history EXCEPT ![s] = messages[s]]
    /\ pc' = [pc EXCEPT ![s] = "called"]
    /\ turns' = [turns EXCEPT ![s] = @ + 1]
    /\ lead' = [lead EXCEPT ![s] = JNull]
    /\ profile_snippets' = [profile_snippets EXCEPT ![s] = <<>>]
    /\ result' = [result EXCEPT ![s] = NoResult]
    /\ exc' = [exc EXCEPT ![s] = ""]
    /\ sent' = [sent EXCEPT ![s] = <<>>]
    /\ model_calls' = [model_calls EXCEPT ![s] = 0]
    /\ model_out' = [model_out EXCEPT ![s] = ModelFailure]
    /\ sink_out' = [sink_out EXCEPT ![s] = NoSinkOut]
    /\ turn_rows' = [turn_rows EXCEPT ![s] = 0]
    /\ UNCHANGED <<leads, errors, appended, PROFILE_CACHE, profile_file, worksheet,
                   lookups>>

\* agent.py:32: run_agent takes the recruiter path or the question path.
RunAgent(s) ==
    /\ pc[s] = "called"
    /\ pc' = [pc EXCEPT ![s] =
                IF LooksLikeRecruiterMessage(prompt[s]) THEN "extract" ELSE "context"]
    /\ UNCHANGED <<messages, leads, errors, prompt, chat_history, frame, appended,
                   PROFILE_CACHE, profile_file, worksheet, turns, lookups>>

\* agent.py:33-37 and 70-83: the extraction call and the gate on its lead.
ExtractLead(s) ==
    /\ pc[s] = "extract"
    /\ \E o \in ModelOutcomes(ModelTexts) :
        LET x == ExtractRecruiterLead(o)
            g == LeadGate(x.lead)
        IN /\ sent' = [sent EXCEPT ![s] = ExtractionMessages(prompt[s])]
           /\ model_calls' = [model_calls EXCEPT ![s] = @ + 1]
           /\ model_out' = [model_out EXCEPT ![s] = o]
           /\ lead' = [lead EXCEPT ![s] = x.lead]
           /\ CASE g = "log" ->
                    /\ pc' = [pc EXCEPT ![s] = "log"]
                    /\ UNCHANGED <<result, exc>>
                [] g = "follow_up" ->
                    /\ pc' = [pc EXCEPT ![s] = "returned"]
                    /\ result' = [result EXCEPT ![s] =
                                    TurnResult(REPLY_FOLLOW_UP, FALSE, JNull)]
                    /\ UNCHANGED exc
                [] g = "AttributeError" ->
                    /\ pc' = [pc EXCEPT ![s] = "raised"]
                    /\ exc' = [exc EXCEPT ![s] = "AttributeError"]
                    /\ UNCHANGED result
    /\ UNCHANGED <<messages, leads, errors, prompt, chat_history, profile_snippets,
                   sink_out, turn_rows, appended, PROFILE_CACHE, profile_file,
                   worksheet, turns, lookups>>

\* agent.py:38-68: log_recruiter_lead and the reply that follows it.
LogLead(s) ==
    /\ pc[s] = "log"
    /\ \E o \in SinkOutcomes, now \in 1..MaxClock :
        LET l == LogAndReply(lead[s], worksheet, o, now)
            n == Len(l.rows) - Len(worksheet)
        IN /\ result' = [result EXCEPT ![s] = l.result]
           /\ worksheet' = l.rows
           /\ turn_rows' = [turn_rows EXCEPT ![s] = @ + n]
           /\ appended' = [appended EXCEPT ![s] = @ + n]
           /\ sink_out' = [sink_out EXCEPT ![s] =
                             [outcome |-> o, now |-> now, raised |-> l.raised]]
    /\ pc' = [pc EXCEPT ![s] = "returned"]
    /\ UNCHANGED <<messages, leads, errors, prompt, chat_history, lead,
                   profile_snippets, exc, sent, model_calls, model_out,
                   PROFILE_CACHE, profile_file, turns, lookups>>

\* agent.py:99: _build_profile_context, which loads the profile on its first
\* lookup; FileNotFoundError leaves run_agent.
BuildContext(s) ==
    /\ pc[s] = "context"
    /\ LET c == BuildProfileContext(prompt[s], PROFILE_CACHE, profile_file)
       IN /\ PROFILE_CACHE' = c.cache
          /\ IF c.raised
             THEN /\ pc' = [pc EXCEPT ![s] = "raised"]
                  /\ exc' = [exc EXCEPT ![s] = "FileNotFoundError"]
                  /\ UNCHANGED profile_snippets
             ELSE /\ pc' = [pc EXCEPT ![s] = "answer"]
                  /\ profile_snippets' = [profile_snippets EXCEPT ![s] = c.text]
                  /\ UNCHANGED exc
    /\ UNCHANGED <<messages, leads, errors, prompt, chat_history, lead, result,
                   sent, model_calls, model_out, sink_out, turn_rows, appended,
                   profile_file, worksheet, turns, lookups>>

\* agent.py:101-117 and 86-91: the answering call and the TurnResult.
Answer(s) ==
    /\ pc[s] = "answer"
    /\ \E o \in ModelOutcomes(ModelTexts) :
        /\ sent' = [sent EXCEPT ![s] =
                      AnswerMessages(prompt[s], chat_history[s], profile_snippets[s])]
        /\ model_calls' = [model_calls EXCEPT ![s] = @ + 1]
        /\ model_out' = [model_out EXCEPT ![s] = o]
        /\ result' = [result EXCEPT ![s] = TurnResult(AnswerText(o), FALSE, JNull)]
    /\ pc' = [pc EXCEPT ![s] = "returned"]
    /\ UNCHANGED <<messages, leads, errors, prompt, chat_history, lead,
                   profile_snippets, exc, sink_out, turn_rows, appended,
                   PROFILE_CACHE, profile_file, worksheet, turns, lookups>>

\* list.pop()
Pop(xs) == SubSeq(xs, 1, Len(xs) - 1)

\* Where rendering may raise in app.py:32-42: nowhere, in st.chat_message /
\* st.markdown (lines 37-38), or in st.sidebar.success (line 42).
RenderFailures == {"none", "markdown", "sidebar"}

\* app.py:32-50 after run_agent returned: the assistant turn is appended and
\* shown, a logged lead is recorded; an exception on the way is handled by
\* the except branch.
ShowReply(s) ==
    /\ pc[s] = "returned"
    /\ \E f \in RenderFailures :
        LET with_reply == Append(messages[s],
                                 [role |-> "assistant", content |-> result[s].response])
            with_lead == IF result[s].lead_logged
                         THEN Append(leads[s], result[s].lead_payload)
                         ELSE leads[s]
        IN /\ f = "sidebar" => result[s].lead_logged
           /\ messages' = [messages EXCEPT ![s] =
                             IF f = "none" THEN with_reply ELSE Pop(with_reply)]
           /\ leads' = [leads EXCEPT ![s] =
                          IF f = "markdown" THEN leads[s] ELSE with_lead]
           /\ errors' = [errors EXCEPT ![s] =
                           IF f = "none" THEN @ ELSE Append(@, "StreamlitError")]
    /\ pc' = [pc EXCEPT ![s] = "idle"]
    /\ UNCHANGED <<prompt, chat_history, frame, appended, PROFILE_CACHE,
                   profile_file, worksheet, turns, lookups>>

\* app.py:43-50 after run_agent raised: the last message is popped and the
\* exception recorded.
ShowError(s) ==
    /\ pc[s] = "raised"
    /\ messages' = [messages EXCEPT ![s] = Pop(@)]
    /\ errors' = [errors EXCEPT ![s] = Append(@, exc[s])]
    /\ pc' = [pc EXCEPT ![s] = "idle"]
    /\ UNCHANGED <<leads, prompt, chat_history, frame, appended, PROFILE_CACHE,
                   profile_file, worksheet, turns, lookups>>

\* One session using the chat.
Next ==
    \/ SubmitPrompt(1)
    \/ RunAgent(1)
    \/ ExtractLead(1)
    \/ LogLead(1)
    \/ BuildContext(1)
    \/ Answer(1)
    \/ ShowReply(1)
    \/ ShowError(1)

Spec == Init /\ [][Next]_vars

\* ------------------------------------------------- run_agent called directly
ConversationRoles == {"system", "user", "assistant", "tool"}
HistoryEntries == [role : ConversationRoles, content : {<<"earlier text">>}]

\* The histories of at most MaxHistory entries.
Histories == UNION {[1..n -> HistoryEntries] : n \in 0..MaxHistory}

\* The sessions in `active` have each called run_agent(p, h), p among Prompts
\* and h among `histories`; the others are idle.
InitCalls(active, histories) ==
    /\ FreshProcess
    /\ FreshFrames
    /\ pc = [s \in Sessions |-> IF s \in active THEN "called" ELSE "idle"]
    /\ \E f \in [active -> Prompts] :
        prompt = [s \in Sessions |-> IF s \in active THEN f[s] ELSE <<>>]
    /\ \E h \in [active -> histories] :
        chat_history = [s \in Sessions |-> IF s \in active THEN h[s] ELSE <<>>]

\* A step of run_agent in session s.
TurnStep(s) ==
    \/ RunAgent(s)
    \/ ExtractLead(s)
    \/ LogLead(s)
    \/ BuildContext(s)
    \/ Answer(s)

\* One call of run_agent with any history.
InitCall == InitCalls({1}, Histories)
NextCall == TurnStep(1)
SpecCall == InitCall /\ [][NextCall]_vars

\* Two sessions' calls of run_agent, interleaved.
InitConc == InitCalls(Sessions, {<<>>})
NextConc == \E s \in Sessions : TurnStep(s)
SpecConc == InitConc /\ [][NextConc]_vars

\* ------------------------------------------ the lookup tools called directly
\* The arguments: None, or a text.
SectionNames ==
    {JNull, JStr(<<>>), JStr(<<"s","k","i","l","l","s">>), JStr(<<"S","K","I","L","L","S">>), JStr(<<" ","S","k","i","l","l","s","\n">>),
     JStr(<<"s","k","i","l","l">>), JStr(<<"j","o","b">>), JStr(<<"p","r","e","f","e","r","e","n","c","e","s">>),
     JStr(<<"j","o","b","_","p","r","e","f","e","r","e","n","c","e","s">>), JStr(<<"J","o","b","_","P","r","e","f","e","r","e","n","c","e","s">>), JStr(<<"h","o","b","b","i","e","s">>)}
ProjectNames ==
    {JNull, JStr(<<>>), JStr(<<" ">>), JStr(<<"a","g","e","n","t">>), JStr(<<"A","g","e","n","t">>),
     JStr(<<"A","G","E","N","T">>), JStr(<<" ","a","g","e","n","t","\n">>), JStr(<<"l","e","n","s">>), JStr(<<"v","i","s","i","o","n">>),
     JStr(<<" ","V","i","s","i","o","n">>), JStr(<<"N","o","p","e">>)}

\* The record of one call: the tool, its argument, the cache before it and
\* what it gave (raised names the exception, "" for none).
LookupCall(fn, arg, cache, r) ==
    [fn |-> fn, arg |-> arg, cache_before |-> cache,
     raised |-> IF r.raised THEN "FileNotFoundError" ELSE "",
     found |-> r.found, value |-> r.value, consulted |-> r.consulted]

\* get_profile_section(name) called.
LookupSection ==
    /\ Len(lookups) < MaxLookups
    /\ \E name \in SectionNames :
        LET r == GetProfileSection(name, PROFILE_CACHE, profile_file)
        IN /\ PROFILE_CACHE' = r.cache
           /\ lookups' = Append(lookups,
                            LookupCall("get_profile_section", name, PROFILE_CACHE, r))
    /\ UNCHANGED <<messages, leads, errors, pc, prompt, chat_history, frame,
                   appended, profile_file, worksheet, turns>>

\* get_project_details(name) called.
LookupProject ==
    /\ Len(lookups) < MaxLookups
    /\ \E name \in ProjectNames :
        LET r == GetProjectDetails(name, PROFILE_CACHE, profile_file)
        IN /\ PROFILE_CACHE' = r.cache
           /\ lookups' = Append(lookups,
                            LookupCall("get_project_details", name, PROFILE_CACHE, r))
    /\ UNCHANGED <<messages, leads, errors, pc, prompt, chat_history, frame,
                   appended, profile_file, worksheet, turns>>

\* A fresh process in which only the lookup tools are called.
InitLookup ==
    /\ FreshWith(LookupFiles)
    /\ FreshFrames
    /\ pc = [s \in Sessions |-> "idle"]
    /\ prompt = [s \in Sessions |-> <<>>]
    /\ chat_history = [s \in Sessions |-> <<>>]
NextLookup == LookupSection \/ LookupProject
SpecLookup == InitLookup /\ [][NextLookup]_vars

\* ------------------------------------------------------------- claims
\* run_agent has returned or raised in session s.
Finished(s) == pc[s] \in {"returned", "raised"}

\* A lead mapping lacks one of the four required fields, or holds it empty.
LeadLacksField(l) ==
    \E k \in MinimumLeadFields : k \notin DOMAIN l.m \/ ~Truthy(l.m[k])

\* A lead mapping holds the four required fields, none empty.
LeadComplete(l) ==
    /\ l.type = "dict"
    /\ \A k \in MinimumLeadFields : k \in DOMAIN l.m /\ Truthy(l.m[k])

\* C1: whenever the model call of a turn fails, on either path, run_agent
\* returns the fixed apology that points at the model backend, with
\* lead_logged false.  (Fails on the recruiter path: the failed extraction call
\* is answered with the follow-up request for the lead's fields.)
C1_ModelFailureApology ==
    \A s \in Sessions :
        (Finished(s) /\ model_calls[s] > 0 /\ ~model_out[s].ok)
            => /\ pc[s] = "returned"
               /\ result[s].response = REPLY_OLLAMA_DOWN
               /\ ~result[s].lead_logged

\* The model's text decodes to a mapping.
DecodesToObject(t) ==
    LET p == JsonLoads(Strip(t)) IN p.ok /\ p.val.type = "dict"

\* C2: whatever text the model returns that is not the expected object (plain,
\* undecodable, or decoding to something else), the turn never throws.  (Fails:
\* a text decoding to a non-empty list, string or number makes run_agent raise
\* AttributeError; nor is the text the reply on the recruiter path.)
C2_NeverThrows ==
    \A s \in Sessions :
        (Finished(s) /\ model_out[s].ok /\ ~DecodesToObject(model_out[s].text))
            => pc[s] = "returned"

\* C3: in every TurnResult, lead_logged implies that lead_payload is a mapping
\* holding the four required fields of the lead, none empty, and the metadata
\* the sink returned: its status, its timestamp and its worksheet.
C3_LoggedPayload ==
    \A s \in Sessions :
        result[s].lead_logged =>
            LET p == result[s].lead_payload
                meta == LogResult(IsoFormat(sink_out[s].now))
            IN /\ p.type = "dict"
               /\ \A k \in MinimumLeadFields :
                    /\ k \in DOMAIN p.m
                    /\ Truthy(p.m[k])
                    /\ p.m[k] = lead[s].m[k]
               /\ \A k \in DOMAIN meta : k \in DOMAIN p.m /\ p.m[k] = meta[k]
               /\ p.m[K_timestamp].s # <<>>

\* C3's case: a logged lead that itself carried a "timestamp" key.
C3_Witness ==
    \E s \in Sessions :
        /\ pc[s] = "returned"
        /\ result[s].lead_logged
        /\ K_timestamp \in DOMAIN lead[s].m

\* C4: a lead with the four required fields non-empty, whatever else it
\* carries, is logged when the sink accepts writes: lead_logged is true and
\* the payload holds the four fields and the sink's metadata.  (Fails for a
\* lead without a "notes" key: log_recruiter_lead requires it too.)
C4_CompleteLeadLogged ==
    \A s \in Sessions :
        (pc[s] = "returned" /\ LeadComplete(lead[s]) /\ sink_out[s].outcome = "ok")
            => /\ result[s].lead_logged
               /\ result[s].lead_payload.type = "dict"
               /\ \A k \in MinimumLeadFields \cup {K_status, K_timestamp} :
                    k \in DOMAIN result[s].lead_payload.m

\* C5 as stated: a lead lacking a required field makes the logging step fail
\* with the missing-fields error, nothing is appended, lead_logged stays
\* false, and the model is invoked again within the turn.
C5_Original ==
    \A s \in Sessions :
        (pc[s] = "returned" /\ lead[s].type = "dict" /\ LeadLacksField(lead[s]))
            => /\ sink_out[s].raised = "ValueError"
               /\ turn_rows[s] = 0
               /\ ~result[s].lead_logged
               /\ model_calls[s] >= 2

\* C5 amended: a lead lacking a required field (absent or empty) never reaches
\* log_recruiter_lead; nothing is appended, and the turn ends after its one
\* model call with the fixed follow-up request, lead_logged false and no
\* payload.
C5_IncompleteLeadFollowUp ==
    \A s \in Sessions :
        (lead[s].type = "dict" /\ LeadLacksField(lead[s]))
            => /\ pc[s] # "log"
               /\ Finished(s) =>
                    /\ pc[s] = "returned"
                    /\ result[s] = TurnResult(REPLY_FOLLOW_UP, FALSE, JNull)
                    /\ sink_out[s] = NoSinkOut
                    /\ turn_rows[s] = 0
                    /\ model_calls[s] = 1

\* C5's case: the turn returned for a lead with no "role" key.
C5_Witness ==
    \E s \in Sessions :
        /\ pc[s] = "returned"
        /\ lead[s].type = "dict"
        /\ K_company \in DOMAIN lead[s].m
        /\ K_role \notin DOMAIN lead[s].m

K_action == <<"a","c","t","i","o","n">>

\* The model's outcome is a tool call: an object whose "action" is "tool".
IsToolCall(o) ==
    /\ o.ok
    /\ LET p == JsonLoads(Strip(o.text))
       IN /\ p.ok
          /\ p.val.type = "dict"
          /\ K_action \in DOMAIN p.val.m
          /\ p.val.m[K_action] = JStr(<<"t","o","o","l">>)

ToolFailed(s) == exc[s] = "FileNotFoundError" \/ sink_out[s].raised # ""

\* A message of the turn's model call has the tool role.
ToolMessageSent(s) == \E i \in DOMAIN sent[s] : sent[s][i].role = "tool"

\* C7 as stated: a tool failure never aborts the turn; it reaches the model
\* as a tool-role message of a further model call.
C7_Original ==
    \A s \in Sessions :
        (Finished(s) /\ ToolFailed(s))
            => /\ pc[s] = "returned"
               /\ ToolMessageSent(s)

\* C7 amended: a failure of log_recruiter_lead (missing key, missing
\* credentials, sheet error) does not abort the turn: nothing is appended and
\* run_agent returns the fixed logging-issue reply with lead_logged false and
\* no payload, with no further model call and no tool-role message; a profile
\* that cannot be loaded makes run_agent raise before any model call.
C7_ToolFailureHandling ==
    \A s \in Sessions :
        /\ (Finished(s) /\ sink_out[s].raised # "")
            => /\ pc[s] = "returned"
               /\ result[s] = TurnResult(REPLY_LOG_FAILED, FALSE, JNull)
               /\ turn_rows[s] = 0
               /\ model_calls[s] = 1
               /\ ~ToolMessageSent(s)
        /\ (Finished(s) /\ exc[s] = "FileNotFoundError")
            => /\ pc[s] = "raised"
               /\ result[s] = NoResult
               /\ model_calls[s] = 0

\* C7's case: the sheet raised while a complete lead was logged.
C7_Witness ==
    \E s \in Sessions :
        /\ pc[s] = "returned"
        /\ sink_out[s].raised = "APIError"

\* C8: log_recruiter_lead raises the missing-fields error exactly when one of
\* recruiter_name, company, role, contact is absent; then no row is appended;
\* when it succeeds exactly one row is appended.  (Fails: it raises the error
\* for a lead that has the four keys and no "notes".)
C8_MissingExactlyWhenRequiredAbsent ==
    \A s \in Sessions :
        sink_out[s].outcome # "" =>
            /\ sink_out[s].raised = "ValueError"
                <=> MinimumLeadFields \ DOMAIN lead[s].m # {}
            /\ sink_out[s].raised = "ValueError" => turn_rows[s] = 0
            /\ sink_out[s].raised = "" => turn_rows[s] = 1

\* The indexes of the history entries whose role is user or assistant.
KeptIndexes(h) == {i \in 1..Len(h) : h[i].role \in {"user", "assistant"}}

\* The j-th smallest member of a set of numbers.
Nth(S, j) == CHOOSE i \in S : Cardinality({k \in S : k <= i}) = j

\* The messages of session s's answering call are: first `system`, then the
\* history's user and assistant entries in order, then the user message.
StackAround(s, system) ==
    LET h == chat_history[s]
        m == sent[s]
        kept == KeptIndexes(h)
    IN /\ Len(m) = Cardinality(kept) + 2
       /\ m[1] = [role |-> "system", content |-> system]
       /\ \A j \in 1..Cardinality(kept) :
            m[j + 1] = [role |-> h[Nth(kept, j)].role,
                        content |-> h[Nth(kept, j)].content]
       /\ m[Len(m)] = [role |-> "user", content |-> prompt[s]]
       /\ \A i \in 2..Len(m) : m[i].role # "system"

\* The answering call of session s was made.
Answered(s) ==
    /\ pc[s] = "returned"
    /\ ~LooksLikeRecruiterMessage(prompt[s])

\* C9 as stated: the system message of the answering call holds the fixed
\* system instruction (with or without the newline that ends it), whatever
\* the user message.
C9_Original ==
    \A s \in Sessions :
        Answered(s) =>
            \/ StackAround(s, SYSTEM_PROMPT)
            \/ StackAround(s, SYSTEM_PROMPT \o <<"\n">>)

\* The keywords of _build_profile_context's four blocks.
ContextKeys == EducationKeys \cup ExperienceKeys \cup SkillsKeys \cup ProjectKeys

\* C9 amended: the answering call is sent one system message, first, holding
\* the fixed system instruction, a newline and the profile snippets chosen by
\* the user message's keywords (none for a message with no keyword); then the
\* history's user and assistant entries, in order and unchanged, the others
\* dropped; then the user message, last.  The history is left as it was.
C9_MessageStack ==
    /\ [](\A s \in Sessions :
            Answered(s) =>
                /\ StackAround(s, SYSTEM_PROMPT \o <<"\n">> \o profile_snippets[s])
                /\ ~AnyIn(ContextKeys, Lower(prompt[s])) => profile_snippets[s] = <<>>)
    /\ [][chat_history' = chat_history]_vars

\* C9's case: a history with a tool entry before a user entry, and a user
\* message that selects profile snippets.
C9_Witness ==
    \E s \in Sessions :
        /\ Answered(s)
        /\ Len(chat_history[s]) = 2
        /\ chat_history[s][1].role = "tool"
        /\ chat_history[s][2].role = "user"
        /\ profile_snippets[s] # <<>>
        /\ Len(sent[s]) = 3

\* run_agent(p, h) on its own, from a fresh process: the exception it raises
\* ("" for none) and the TurnResult it returns, the model answering o, the
\* sheet answering so and the profile file being `file`.
RunAgentAlone(p, o, so, file) ==
    IF LooksLikeRecruiterMessage(p)
    THEN LET x == ExtractRecruiterLead(o)
             g == LeadGate(x.lead)
         IN CASE g = "AttributeError" -> [raised |-> "AttributeError", result |-> NoResult]
              [] g = "follow_up" ->
                    [raised |-> "", result |-> TurnResult(REPLY_FOLLOW_UP, FALSE, JNull)]
              [] g = "log" ->
                    [raised |-> "",
                     result |-> LogAndReply(x.lead, <<>>, so.outcome, so.now).result]
    ELSE IF BuildProfileContext(p, CacheNone, file).raised
    THEN [raised |-> "FileNotFoundError", result |-> NoResult]
    ELSE [raised |-> "", result |-> TurnResult(AnswerText(o), FALSE, JNull)]

\* What belongs to session s alone.
LocalsOf(s) ==
    <<prompt[s], chat_history[s], lead[s], profile_snippets[s], result[s], exc[s],
      sent[s], model_calls[s], model_out[s], sink_out[s], turn_rows[s],
      messages[s], leads[s], errors[s]>>

\* The rows of the worksheet that hold session s's logged lead.
RowsOf(s) ==
    {i \in 1..Len(worksheet) :
        worksheet[i] = LeadRow(IsoFormat(sink_out[s].now), lead[s])}

\* The sessions whose turn logged a lead.
Loggers == {s \in Sessions : result[s].lead_logged}

\* xs is a prefix of ys.
IsPrefix(xs, ys) == Len(xs) <= Len(ys) /\ SubSeq(ys, 1, Len(xs)) = xs

ProjectCalls == {i \in 1..Len(lookups) : lookups[i].fn = "get_project_details"}
SectionCalls == {i \in 1..Len(lookups) : lookups[i].fn = "get_profile_section"}

\* The argument of a call is a non-empty text.
NamedCall(c) == c.arg.type = "str" /\ c.arg.s # <<>>

\* The project records of the profile file.
FileProjects ==
    IF profile_file.exists THEN ProjectsOf(profile_file.data) ELSE <<>>

\* C11 as stated: for every project record P of the profile data and every
\* name X equal to P's name up to letter case, get_project_details(X) returns
\* P's record; for every non-empty X that matches no project of the profile
\* it returns the absent value and raises nothing; the profile data is never
\* modified.
C11_Original ==
    /\ \A i \in ProjectCalls :
        LET c == lookups[i]
        IN /\ \A j \in 1..Len(FileProjects) :
                (c.arg.type = "str" /\ Lower(c.arg.s) = Lower(FileProjects[j].name))
                    => /\ c.raised = ""
                       /\ c.found
                       /\ c.value = FileProjects[j]
           /\ (/\ NamedCall(c)
               /\ profile_file.exists
               /\ \A j \in 1..Len(FileProjects) :
                    Lower(c.arg.s) # Lower(FileProjects[j].name))
                => c.raised = "" /\ ~c.found
    /\ PROFILE_CACHE.loaded => PROFILE_CACHE.data = profile_file.data

\* The name of project j has no surrounding whitespace and no earlier project
\* has the same name up to letter case.
FirstOfItsName(j) ==
    /\ Strip(FileProjects[j].name) = FileProjects[j].name
    /\ \A k \in 1..(j - 1) :
        Lower(FileProjects[k].name) # Lower(FileProjects[j].name)

\* C11 amended: for a non-empty name X and a profile file that exists,
\* get_project_details(X) returns, unchanged, the first record of the
\* profile's projects whose lower-cased name equals X lower-cased and stripped
\* of surrounding whitespace (so P itself for every X equal up to letter case
\* to the name of a P that is the first of its name and has no surrounding
\* whitespace), and the absent value when there is none; with no profile file
\* it raises FileNotFoundError; the lookup never modifies the profile data.
C11_FirstMatch ==
    /\ [](\A i \in ProjectCalls :
            LET c == lookups[i]
                key == Strip(Lower(c.arg.s))
                n == Len(FileProjects)
            IN NamedCall(c) =>
                IF ~profile_file.exists
                THEN c.raised = "FileNotFoundError" /\ ~c.found
                ELSE /\ c.raised = ""
                     /\ c.found =>
                            \E j \in 1..n :
                                /\ c.value = FileProjects[j]
                                /\ Lower(FileProjects[j].name) = key
                                /\ \A k \in 1..(j - 1) : Lower(FileProjects[k].name) # key
                     /\ ~c.found => \A j \in 1..n : Lower(FileProjects[j].name) # key
                     /\ \A j \in 1..n :
                            (FirstOfItsName(j) /\ Lower(c.arg.s) = Lower(FileProjects[j].name))
                                => c.found /\ c.value = FileProjects[j])
    /\ [][/\ profile_file' = profile_file
          /\ PROFILE_CACHE.loaded => PROFILE_CACHE' = PROFILE_CACHE
          /\ PROFILE_CACHE'.loaded => PROFILE_CACHE'.data = profile_file.data]_vars

\* C11's case: of two projects named alike up to letter case, the name of the
\* second, in capitals, found the first.
C11_Witness ==
    \E i \in ProjectCalls :
        /\ lookups[i].arg = JStr(<<"A","G","E","N","T">>)
        /\ lookups[i].found
        /\ lookups[i].value.name = <<"A","g","e","n","t">>
        /\ Len(FileProjects) = 3

\* _PROFILE_CACHE as call i of the lookup tools left it.
CacheAfter(i) ==
    IF i < Len(lookups) THEN lookups[i + 1].cache_before ELSE PROFILE_CACHE

\* The argument of a call is empty or absent.
UnnamedCall(c) == ~Truthy(c.arg)

\* C12 as stated: a section lookup or a project lookup invoked with an empty
\* or absent name fails with InvalidArguments and does not consult the
\* profile data.
C12_Original ==
    \A i \in 1..Len(lookups) :
        UnnamedCall(lookups[i])
            => /\ lookups[i].raised = "InvalidArguments"
               /\ ~lookups[i].consulted
               /\ CacheAfter(i) = lookups[i].cache_before

\* C12 amended: a section lookup or a project lookup invoked with an empty or
\* absent name raises nothing and returns the absent value, the same value as
\* a lookup that found nothing; it does not consult the profile data: the
\* profile is not loaded, and a missing profile file goes unnoticed.
C12_EmptyNameReturnsNone ==
    \A i \in 1..Len(lookups) :
        UnnamedCall(lookups[i])
            => /\ lookups[i].raised = ""
               /\ ~lookups[i].found
               /\ ~lookups[i].consulted
               /\ CacheAfter(i) = lookups[i].cache_before
               /\ \A j \in 1..Len(lookups) :
                    (lookups[j].raised = "" /\ ~lookups[j].found)
                        => lookups[j].value = lookups[i].value

\* C12's case: a project lookup with an absent name, which left the profile
\* unloaded, and then a named section lookup that found nothing.
C12_Witness ==
    /\ Len(lookups) = 2
    /\ profile_file.exists
    /\ lookups[1].fn = "get_project_details" /\ lookups[1].arg = JNull
    /\ ~lookups[2].cache_before.loaded
    /\ lookups[2].fn = "get_profile_section" /\ NamedCall(lookups[2])
    /\ lookups[2].raised = "" /\ ~lookups[2].found

\* The alias table the claim speaks of: the section an alias stands for.
AliasOf(name) ==
    CASE name = <<"s","k","i","l","l">> -> <<"s","k","i","l","l","s">>
      [] name = <<"j","o","b">> -> <<"j","o","b","_","p","r","e","f","e","r","e","n","c","e","s">>
      [] name = <<"p","r","e","f","e","r","e","n","c","e","s">> -> <<"j","o","b","_","p","r","e","f","e","r","e","n","c","e","s">>
      [] OTHER -> name
Aliases == {<<"s","k","i","l","l">>, <<"j","o","b">>, <<"p","r","e","f","e","r","e","n","c","e","s">>}

\* The call c gave what the lookup r gives.
SameAnswer(c, r) ==
    /\ c.raised = (IF r.raised THEN "FileNotFoundError" ELSE "")
    /\ c.found = r.found
    /\ c.value = r.value

\* The keys of the profile file.
FileKeys ==
    IF profile_file.exists
    THEN {profile_file.data[i][1] : i \in 1..Len(profile_file.data)}
    ELSE {}

\* C13 as stated: in any letter case, get_profile_section of an alias returns
\* what get_profile_section of the section it stands for returns ("skill" as
\* "skills", "job" and "preferences" as "job_preferences").
C13_Original ==
    \A i \in SectionCalls :
        LET c == lookups[i]
        IN (NamedCall(c) /\ Lower(c.arg.s) \in Aliases)
            => SameAnswer(c, GetProfileSection(JStr(AliasOf(Lower(c.arg.s))),
                                               c.cache_before, profile_file))

\* C13 amended: get_profile_section resolves section names case-insensitively
\* and ignoring surrounding whitespace, with no alias table: for a profile
\* file that exists it returns the value of the first key equal to the name up
\* to letter case, and the absent value when there is none, so that "skill",
\* "job" and "preferences" return the absent value unless the profile has a
\* key of that very name; names equal up to letter case and surrounding
\* whitespace are answered alike.
C13_CaseInsensitiveNoAlias ==
    /\ \A i \in SectionCalls :
        LET c == lookups[i]
            key == Strip(Lower(c.arg.s))
            data == profile_file.data
        IN (NamedCall(c) /\ profile_file.exists) =>
            /\ c.raised = ""
            /\ c.found =>
                \E j \in 1..Len(data) :
                    /\ Lower(data[j][1]) = key
                    /\ c.value = data[j][2]
                    /\ \A k \in 1..(j - 1) : Lower(data[k][1]) # key
            /\ ~c.found => \A k \in FileKeys : Lower(k) # key
            /\ (key \in Aliases /\ \A k \in FileKeys : Lower(k) # key) => ~c.found
    /\ \A i, j \in SectionCalls :
        (/\ NamedCall(lookups[i]) /\ NamedCall(lookups[j])
         /\ Strip(Lower(lookups[i].arg.s)) = Strip(Lower(lookups[j].arg.s)))
            => /\ lookups[i].raised = lookups[j].raised
               /\ lookups[i].found = lookups[j].found
               /\ lookups[i].value = lookups[j].value

\* C13's case: in a profile that has skills, "skill" found nothing and
\* "SKILLS" found the section.
C13_Witness ==
    /\ Len(lookups) = 2
    /\ lookups[1].fn = "get_profile_section" /\ lookups[1].arg = JStr(<<"s","k","i","l","l">>)
    /\ ~lookups[1].found
    /\ lookups[2].fn = "get_profile_section" /\ lookups[2].arg = JStr(<<"S","K","I","L","L","S">>)
    /\ lookups[2].found

\* C14 as stated: a final reply that holds structured-object delimiters is
\* cut to the fragment after its last closing delimiter, trimmed; a turn that
\* logs a lead returns no structured syntax.
C14_Original ==
    \A s \in Sessions :
        pc[s] = "returned" =>
            /\ (/\ ~LooksLikeRecruiterMessage(prompt[s])
                /\ model_out[s].ok
                /\ HasDelimiters(Strip(model_out[s].text)))
                => result[s].response = Sanitized(Strip(model_out[s].text))
            /\ result[s].lead_logged => ~HasDelimiters(result[s].response)

\* C14 amended: no reply is sanitized.  On the question path a model text that
\* is not blank is the response as the model gave it, stripped of surrounding
\* whitespace only, delimiters included; a turn that logs a lead returns the
\* fixed acknowledgement holding the lead's five field values as the model
\* gave them, and never the model's raw text; every other reply of the
\* recruiter path is one of the two fixed texts.
C14_NoSanitizer ==
    \A s \in Sessions :
        pc[s] = "returned" =>
            /\ (/\ ~LooksLikeRecruiterMessage(prompt[s])
                /\ model_out[s].ok
                /\ Strip(model_out[s].text) # <<>>)
                => result[s].response = Strip(model_out[s].text)
            /\ result[s].lead_logged
                => /\ result[s].response = RecordedReply(lead[s])
                   /\ ~Contains(result[s].response, Strip(model_out[s].text))
            /\ (LooksLikeRecruiterMessage(prompt[s]) /\ ~result[s].lead_logged)
                => result[s].response \in {REPLY_FOLLOW_UP, REPLY_LOG_FAILED}

\* C14's case: a question answered by an object followed by words, and the
\* whole of it returned.
C14_Witness ==
    \E s \in Sessions :
        /\ pc[s] = "returned"
        /\ ~LooksLikeRecruiterMessage(prompt[s])
        /\ result[s].response = TextTrailing
        /\ Sanitized(TextTrailing) = <<"H", "i">>

\* C15: whatever log_recruiter_lead raises while run_agent logs a lead (a
\* missing key, missing credentials, a sheet error), run_agent raises nothing
\* and returns the graceful reply with lead_logged false and no payload; and
\* every TurnResult whose lead_logged is false has no payload.
C15_LogFailureGraceful ==
    \A s \in Sessions :
        /\ sink_out[s].raised # ""
            => /\ pc[s] \in {"returned", "idle"}
               /\ exc[s] = ""
               /\ result[s].response = REPLY_LOG_FAILED
               /\ ~result[s].lead_logged
               /\ result[s].lead_payload = JNull
        /\ (pc[s] = "returned" /\ ~result[s].lead_logged)
            => result[s].lead_payload = JNull

\* C15's case: run_agent returned after log_recruiter_lead found no
\* credentials file for a complete lead.
C15_Witness ==
    \E s \in Sessions :
        /\ pc[s] = "returned"
        /\ LeadComplete(lead[s])
        /\ sink_out[s].raised = "FileNotFoundError"

\* The user turn of session s's prompt.
UserTurn(s) == [role |-> "user", content |-> prompt[s]]

\* C16: run_agent is handed the messages before the prompt; when handling
\* the prompt fails with an exception (in run_agent, while the reply is
\* rendered, or while the lead is recorded) the messages are left exactly as
\* they were before the prompt; when it succeeds they have grown by the user
\* turn followed by the assistant turn.  (Fails: an exception raised after the
\* assistant turn was appended makes the handler pop the assistant turn, and
\* the user turn stays.)
C16_HandlerFrame ==
    /\ [](\A s \in Sessions :
            pc[s] = "called" => messages[s] = Append(chat_history[s], UserTurn(s)))
    /\ [][\A s \in Sessions :
            (pc[s] \in {"returned", "raised"} /\ pc'[s] = "idle")
                => IF Len(errors'[s]) > Len(errors[s])
                   THEN messages'[s] = chat_history[s]
                   ELSE messages'[s] =
                            chat_history[s]
                            \o <<UserTurn(s),
                                 [role |-> "assistant", content |-> result[s].response]>>]_vars

\* The user message holds a hiring keyword together with a contact keyword.
MatchesHeuristic(p) ==
    /\ \E k \in HiringKeys : Contains(Lower(p), k)
    /\ \E k \in ContactKeys : Contains(Lower(p), k)

\* C17: a turn whose user message does not match the recruiter heuristic
\* never calls log_recruiter_lead nor appends a row, and what it returns has
\* lead_logged false and no payload, whatever the model outputs; a row is
\* appended to the worksheet only by a turn on the recruiter path whose
\* extracted lead holds the four fields, none empty.
C17_QuestionNeverLogs ==
    /\ [](\A s \in Sessions :
            ~MatchesHeuristic(prompt[s])
                => /\ pc[s] \notin {"extract", "log"}
                   /\ sink_out[s] = NoSinkOut
                   /\ turn_rows[s] = 0
                   /\ ~result[s].lead_logged
                   /\ result[s].lead_payload = JNull)
    /\ [][worksheet' # worksheet
            => \E s \in Sessions :
                /\ MatchesHeuristic(prompt[s])
                /\ pc[s] = "log" /\ pc'[s] = "returned"
                /\ LeadComplete(lead[s])
                /\ Len(worksheet') = Len(worksheet) + 1
                /\ worksheet'[Len(worksheet')][2] = lead[s].m[K_recruiter_name]]_vars

\* C17's case: a message with a hiring keyword and no contact keyword,
\* answered by the model with a complete lead object, which is the reply.
C17_Witness ==
    \E s \in Sessions :
        /\ pc[s] = "returned"
        /\ prompt[s] = PromptJob
        /\ model_out[s] = ModelReply(TextLeadFull)
        /\ result[s].response = TextLeadFull
        /\ worksheet = <<>>

\* C18: whenever a session's handler is at rest, its leads list has as many
\* entries as its turns appended rows to the worksheet; a turn that appended
\* a row returns lead_logged true, and a turn that did not returns it false.
\* (Fails: a reply that cannot be rendered after run_agent logged the lead
\* leaves the row in the worksheet and no entry in leads.)
C18_LeadsMatchRows ==
    \A s \in Sessions :
        /\ pc[s] = "idle" => Len(leads[s]) = appended[s]
        /\ pc[s] = "returned" => (result[s].lead_logged <=> turn_rows[s] = 1)

\* C19 as stated: a call of run_agent that has returned or raised has made
\* exactly one model invocation and appended at most one row.
C19_Original ==
    \A s \in Sessions :
        Finished(s) => model_calls[s] = 1 /\ turn_rows[s] <= 1

\* How far run_agent has come at each position.
Rank(p) ==
    CASE p \in {"idle", "called"} -> 0
      [] p \in {"extract", "context"} -> 1
      [] p \in {"log", "answer"} -> 2
      [] p \in {"returned", "raised"} -> 3

\* C19 amended: every call of run_agent ends, returning one TurnResult or
\* raising, and nothing follows: every step brings the call nearer its end
\* (no step is taken twice, the end is at most three steps away) and an ended
\* call takes no step.  It makes at most one model invocation and appends at
\* most one row.
\* A call that returns, or raises AttributeError, has made exactly one
\* invocation: the extraction call on the recruiter path, the answering call
\* on the question path.  A call that raises FileNotFoundError (no profile
\* file) has made none.
C19_OneCallThenEnds ==
    /\ [](\A s \in Sessions :
            /\ model_calls[s] <= 1
            /\ turn_rows[s] <= 1
            /\ Finished(s) =>
                IF exc[s] = "FileNotFoundError"
                THEN /\ ~LooksLikeRecruiterMessage(prompt[s])
                     /\ model_calls[s] = 0
                     /\ sent[s] = <<>>
                ELSE /\ model_calls[s] = 1
                     /\ sent[s] =
                            IF LooksLikeRecruiterMessage(prompt[s])
                            THEN ExtractionMessages(prompt[s])
                            ELSE AnswerMessages(prompt[s], chat_history[s],
                                                profile_snippets[s]))
    /\ [][\A s \in Sessions :
            /\ pc'[s] # pc[s] => Rank(pc'[s]) > Rank(pc[s])
            /\ Finished(s) => (pc'[s] = pc[s] /\ LocalsOf(s)' = LocalsOf(s))]_vars

\* C19's case: a call that raised for want of the profile file before any
\* model invocation.
C19_Witness ==
    \E s \in Sessions :
        /\ pc[s] = "raised"
        /\ exc[s] = "FileNotFoundError"
        /\ model_calls[s] = 0

====
